---- MODULE Spec2Model ----
(***************************************************************************)
(* A model of the georust crate: the haversine distance and bounding box   *)
(* (src/src/haversine.rs), the spatial queries over a loaded record slice  *)
(* (src/src/lib.rs, src/src/utils/postal.rs) and the download / on-disk    *)
(* cache pipeline (src/src/geonames/mod.rs, src/src/load_geonames.rs).     *)
(*                                                                         *)
(* Numbers.  The code computes in f64.  The model computes the same        *)
(* formulas in fixed point: coordinates are whole millidegrees (multiples  *)
(* of ten, so that half a difference is whole), trigonometric values and   *)
(* radians carry eight decimal digits (Scale), the angle atan2 returns is  *)
(* in microdegrees, lengths are whole metres and a radius is whole         *)
(* kilometres.  Every intermediate product is split so that it stays       *)
(* inside the 32-bit integers of the model checker.                        *)
(***************************************************************************)
EXTENDS Integers, Sequences, FiniteSets, TLC

VARIABLES
    geonames_data,  \* the record slice handed to a query (&[PostalData])
    op,             \* the query that ran last ("none" before the first one)
    location,       \* its location argument
    radius,         \* its radius / threshold argument in km (0 when it has none)
    result,         \* its result: the positions in geonames_data of the returned references
    cache,          \* the cache directory: path -> [exists, data]
    pc,             \* per process: where it is inside download / download_postal
    call,           \* per process: the arguments of the running call
    data,           \* per process: the local String `data`
    offset,         \* per process: the chunks std::fs::write has written so far
    io,             \* per process: the I/O the running call has performed so far
    ret,            \* per process: what the finished call returned
    fetched,        \* history: path -> the text the last successful caching download returned
    fresh           \* history: the targets not downloaded since invalidate_cache() returned

qvars == <<geonames_data, op, location, radius, result>>
cvars == <<cache, pc, call, data, offset, io, ret, fetched, fresh>>
vars == <<geonames_data, op, location, radius, result,
          cache, pc, call, data, offset, io, ret, fetched, fresh>>

-----------------------------------------------------------------------------
(* Fixed-point arithmetic                                                  *)

\* Half the decimal digits of Scale: the limb in which products are split.
Limb == 100 * 100

\* Trigonometric values and radians are integers in units of 1/Scale.
Scale == Limb * Limb

\* floor(a * b / Scale) for 0 <= a, b, computed limb by limb (a f64 product).
FMul(a, b) ==
    LET ah == a \div Limb
        al == a % Limb
        bh == b \div Limb
        bl == b % Limb
    IN  ah * bh + ((ah * bl + al * bh) + ((al * bl) \div Limb)) \div Limb

\* floor(a * m / b) for 0 <= a, 0 < b, b * m inside the integers (a f64 quotient).
MulDiv(a, m, b) == (a \div b) * m + ((a % b) * m) \div b

Abs(x) == IF x < 0 THEN -x ELSE x

\* sin of the whole degrees 0..90, in units of 1/Scale.
SinTable ==
    << 0, 1745241, 3489950, 5233596, 6975647, 8715574, 10452846,
      12186934, 13917310, 15643447, 17364818, 19080900, 20791169, 22495105,
      24192190, 25881905, 27563736, 29237170, 30901699, 32556815, 34202014,
      35836795, 37460659, 39073113, 40673664, 42261826, 43837115, 45399050,
      46947156, 48480962, 50000000, 51503807, 52991926, 54463904, 55919290,
      57357644, 58778525, 60181502, 61566148, 62932039, 64278761, 65605903,
      66913061, 68199836, 69465837, 70710678, 71933980, 73135370, 74314483,
      75470958, 76604444, 77714596, 78801075, 79863551, 80901699, 81915204,
      82903757, 83867057, 84804810, 85716730, 86602540, 87461971, 88294759,
      89100652, 89879405, 90630779, 91354546, 92050485, 92718385, 93358043,
      93969262, 94551858, 95105652, 95630476, 96126170, 96592583, 97029573,
      97437006, 97814760, 98162718, 98480775, 98768834, 99026807, 99254615,
      99452190, 99619470, 99756405, 99862953, 99939083, 99984770, 100000000 >>

\* sin of m millidegrees, 0 <= m <= 90000: the table, linear between whole degrees.
SinQ(m) ==
    LET k == m \div 1000
        f == m % 1000
    IN  IF f = 0 THEN SinTable[k + 1]
        ELSE SinTable[k + 1] + ((SinTable[k + 2] - SinTable[k + 1]) * f) \div 1000

\* |sin| of x millidegrees, -360000 <= x <= 360000 (f64::to_radians then f64::sin;
\* the code only ever squares the value).
Sin(x) ==
    LET m == Abs(x) % 180000
    IN  IF m <= 90000 THEN SinQ(m) ELSE SinQ(180000 - m)

\* cos of x millidegrees, -90000 <= x <= 90000 (a latitude).
Cos(x) == SinQ(90000 - Abs(x))

\* s * s <= x * Scale, decided on the limbs of s (the product itself does not fit).
SquareLeq(s, x) ==
    LET sh == s \div Limb
        sl == s % Limb
        mid == 2 * sh * sl + ((sl * sl) \div Limb)
        q == sh * sh + (mid \div Limb)
    IN  \/ q < x
        \/ q = x /\ mid % Limb = 0 /\ (sl * sl) % Limb = 0

RECURSIVE SqrtSearch(_, _, _)
\* The largest s in lo..hi-1 with s * s <= x * Scale, given that lo is one.
SqrtSearch(x, lo, hi) ==
    IF hi - lo <= 1 THEN lo
    ELSE LET mid == (lo + hi) \div 2
         IN  IF SquareLeq(mid, x) THEN SqrtSearch(x, mid, hi)
             ELSE SqrtSearch(x, lo, mid)

\* f64::sqrt of x in 0..Scale, in units of 1/Scale (rounded down).
Sqrt(x) == SqrtSearch(x, 0, Scale + 1)

\* sin(phi - k degrees) in units of 1/Scale, where phi = atan2(y, x):
\* not negative exactly when phi is at least k degrees.
AtanGap(y, x, k) == FMul(y, SinTable[91 - k]) - FMul(x, SinTable[k + 1])

RECURSIVE AtanSearch(_, _, _, _)
\* The largest k in lo..hi-1 with AtanGap(y, x, k) >= 0, given that lo is one.
AtanSearch(y, x, lo, hi) ==
    IF hi - lo <= 1 THEN lo
    ELSE LET mid == (lo + hi) \div 2
         IN  IF AtanGap(y, x, mid) >= 0 THEN AtanSearch(y, x, mid, hi)
             ELSE AtanSearch(y, x, lo, mid)

\* f64::atan2(y, x) for y, x >= 0 with y*y + x*x = 1, in microdegrees
\* (0..90000000): the whole degree by search, the rest linear in the gap.
Atan2(y, x) ==
    LET k  == AtanSearch(y, x, 0, 91)
        g0 == AtanGap(y, x, k)
        g1 == IF k = 90 THEN 0 ELSE AtanGap(y, x, k + 1)
        d  == g0 - g1
    IN  IF k = 90 \/ g0 = 0 THEN k * 1000000
        ELSE k * 1000000 + ((g0 * 1000) \div d) * 1000
                         + (((g0 * 1000) % d) * 1000) \div d

\* f64::to_radians of an angle of u microdegrees, 0 <= u <= 180000000, in units
\* of 1/Scale (pi / 180 = 0.0174532925...).
AngleToRadians(u) == FMul(u, 174532925)

\* f64::to_radians of a plain number x >= 0: x * pi / 180.
to_radians(x) == FMul(x, 1745329)

-----------------------------------------------------------------------------
(* src/src/haversine.rs                                                    *)

\* pub const EARTH_RADIUS: f64 = 6371.0 (km).
EARTH_RADIUS == 6371

\* EARTH_RADIUS in metres, the unit of the model's lengths.
EarthRadiusM == EARTH_RADIUS * 1000

\* calculate_distance: the haversine distance of two locations, in metres.
calculate_distance(location_1, location_2) ==
    LET d_lat == location_2.latitude - location_1.latitude
        d_lon == location_2.longitude - location_1.longitude
        s_lat == Sin(d_lat \div 2)
        s_lon == Sin(d_lon \div 2)
        a == FMul(s_lat, s_lat)
             + FMul(FMul(Cos(location_1.latitude), Cos(location_2.latitude)),
                    FMul(s_lon, s_lon))
        c == 2 * Atan2(Sqrt(a), Sqrt(Scale - a))
    IN  FMul(AngleToRadians(c), EarthRadiusM)

\* The longitude half-width that admits every longitude (two full turns).
AllLongitudes == 720 * 1000

\* BoundingBox::new(centre, threshold): threshold in km, the box in millidegrees.
\* At a pole cos is 6e-17 in f64 and the quotient is huge but finite: any
\* half-width of a full turn or more admits every longitude, and is capped.
BoundingBox_new(centre, threshold) ==
    LET threshold_m == threshold * 1000
        lat_den  == to_radians(EarthRadiusM)
        lon_den  == to_radians(FMul(EarthRadiusM, Cos(centre.latitude)))
        lat_diff == MulDiv(threshold_m, 1000, lat_den)
        lon_diff == IF threshold_m = 0 THEN 0
                    ELSE IF lon_den = 0 THEN AllLongitudes
                    ELSE IF threshold_m \div lon_den >= 720 THEN AllLongitudes
                    ELSE MulDiv(threshold_m, 1000, lon_den)
    IN  [min_lat |-> centre.latitude - lat_diff,
         max_lat |-> centre.latitude + lat_diff,
         min_lon |-> centre.longitude - lon_diff,
         max_lon |-> centre.longitude + lon_diff]

\* is_within_bounding_box(location, bounding_box): inclusive on both axes.
is_within_bounding_box(loc, bounding_box) ==
    /\ loc.latitude >= bounding_box.min_lat
    /\ loc.latitude <= bounding_box.max_lat
    /\ loc.longitude >= bounding_box.min_lon
    /\ loc.longitude <= bounding_box.max_lon

-----------------------------------------------------------------------------
(* The inputs of the spatial queries                                       *)

\* The longest record slice a query is given.
MaxRecords == 3

GeoLocation(lat, lon) == [latitude |-> lat, longitude |-> lon]

\* Option<GeoLocation>: None is the empty sequence, Some(l) is <<l>>.
None == << >>
Some(l) == << l >>
is_some(o) == o # << >>
unwrap(o) == o[1]

\* The query points: one on the equator two degrees from the 180th meridian,
\* one at 60 degrees north.
Points == { GeoLocation(0, 178000), GeoLocation(60000, 0) }

\* The coordinates records carry: 1 degree west of the first point (111.2 km), the
\* same a tenth of a degree north (111.7 km), 4 degrees east of it across the 180th
\* meridian (444.8 km), 4 degrees north and 4 west of it (628 km, a corner of the
\* 500 km box); 16 degrees north and 60 east of the second point (2862 km), and
\* 1 degree east of it (55.6 km).
Coordinates ==
    { GeoLocation(0, 177000), GeoLocation(100, 177000), GeoLocation(0, -178000),
      GeoLocation(4000, 174000), GeoLocation(76000, 60000), GeoLocation(60000, 1000) }

\* The radii and thresholds, in km.
Radii == { 112, 500, 3000 }

\* PostalData, cut to the fields the queries read (and derive(PartialEq) compares).
PostalData(code, geo) == [postal_code |-> code, geolocation |-> geo]

\* The rows a slice is made of: rows that share a postal code, rows that share a
\* coordinate, and a row without a location.
RecordPool ==
    { PostalData("CM8", Some(GeoLocation(0, 177000))),
      PostalData("CM9", Some(GeoLocation(0, 177000))),
      PostalData("CM9", Some(GeoLocation(100, 177000))),
      PostalData("CM8", Some(GeoLocation(0, -178000))),
      PostalData("CM8", Some(GeoLocation(4000, 174000))),
      PostalData("CM9", Some(GeoLocation(76000, 60000))),
      PostalData("CM8", Some(GeoLocation(60000, 1000))),
      PostalData("CM9", None) }

\* Every slice of at most MaxRecords rows.
RecordSlices == UNION { [1..n -> RecordPool] : n \in 0..MaxRecords }

-----------------------------------------------------------------------------
(* src/src/models/geolocation.rs                                           *)

\* calculate_distance on every pair the queries can ask for, computed once.
DistanceTable ==
    [l1 \in Points \cup Coordinates, l2 \in Points \cup Coordinates
        |-> calculate_distance(l1, l2)]

\* GeoLocation::distance(&self, other) = calculate_distance(self, other), in metres.
distance(self, other) == DistanceTable[self, other]

-----------------------------------------------------------------------------
(* src/src/utils/postal.rs and src/src/lib.rs: the queries.  A returned     *)
(* reference &PostalData is the position of the row in the slice.           *)

\* `distance(..) as i32`: the whole kilometres of a distance in metres.
as_i32(metres) == metres \div 1000

\* A faulty radius test: a row is kept when it is at least the radius away.
Faulty_within_beyond_radius(metres, radius_km) == metres >= radius_km * 1000

\* `.distance(&location) <= radius`, the radius in km.
within(metres, radius_km) == metres <= radius_km * 1000

\* Iterator::filter over a slice: the positions, in order, at which the
\* predicate (keep[i], one truth value per row) holds.
RECURSIVE Filter(_, _)
Filter(keep, i) ==
    IF i > Len(keep) THEN << >>
    ELSE IF keep[i] THEN << i >> \o Filter(keep, i + 1)
    ELSE Filter(keep, i + 1)

\* Iterator::min_by_key over positions (key[p] is the key of position p): a later
\* element replaces the minimum only when its key is strictly less, so the first
\* of equal keys is returned.
RECURSIVE MinByKeyFrom(_, _, _, _)
MinByKeyFrom(positions, key, best, i) ==
    IF i > Len(positions) THEN best
    ELSE IF key[positions[i]] < key[best]
         THEN MinByKeyFrom(positions, key, positions[i], i + 1)
         ELSE MinByKeyFrom(positions, key, best, i + 1)

min_by_key(positions, key) ==
    IF positions = << >> THEN << >>
    ELSE << MinByKeyFrom(positions, key, positions[1], 2) >>

\* Vec::dedup on a Vec<&PostalData>: an element equal (by value) to the one kept
\* just before it is removed.
RECURSIVE DedupFrom(_, _, _, _)
DedupFrom(slice, positions, kept, i) ==
    IF i > Len(positions) THEN kept
    ELSE IF slice[positions[i]] = slice[kept[Len(kept)]]
         THEN DedupFrom(slice, positions, kept, i + 1)
         ELSE DedupFrom(slice, positions, Append(kept, positions[i]), i + 1)

dedup(slice, positions) ==
    IF positions = << >> THEN << >>
    ELSE DedupFrom(slice, positions, << positions[1] >>, 2)

\* get_nearest_postcode(location, geonames_data) (get_nearest_place is the same
\* code over Gazetteer rows).
get_nearest_postcode(loc, slice) ==
    LET located == [i \in 1..Len(slice) |-> is_some(slice[i].geolocation)]
        candidates == Filter(located, 1)
        key == [i \in { candidates[j] : j \in 1..Len(candidates) } |->
                   as_i32(distance(unwrap(slice[i].geolocation), loc))]
    IN  min_by_key(candidates, key)

\* A faulty get_nearest_postcode_with_bounding: the bounding box is not applied.
Faulty_nearest_ignores_box(loc, slice, threshold) ==
    get_nearest_postcode(loc, slice)

\* A faulty get_nearest_postcode_with_bounding: the threshold is taken for the
\* width of the box, not for its half-width.
Faulty_nearest_half_threshold(loc, slice, threshold) ==
    LET bounds == BoundingBox_new(loc, threshold \div 2)
        keep == [i \in 1..Len(slice) |->
                    /\ is_some(slice[i].geolocation)
                    /\ is_within_bounding_box(unwrap(slice[i].geolocation), bounds)]
        candidates == Filter(keep, 1)
        key == [i \in { candidates[j] : j \in 1..Len(candidates) } |->
                   as_i32(distance(unwrap(slice[i].geolocation), loc))]
    IN  min_by_key(candidates, key)

\* get_nearest_postcode_with_bounding(location, geonames_data, threshold)
\* (get_nearest_place_with_bounding is the same code over Gazetteer rows).
get_nearest_postcode_with_bounding(loc, slice, threshold) ==
    LET bounds == BoundingBox_new(loc, threshold)
        keep == [i \in 1..Len(slice) |->
                    /\ is_some(slice[i].geolocation)
                    /\ is_within_bounding_box(unwrap(slice[i].geolocation), bounds)]
        candidates == Filter(keep, 1)
        key == [i \in { candidates[j] : j \in 1..Len(candidates) } |->
                   as_i32(distance(unwrap(slice[i].geolocation), loc))]
    IN  min_by_key(candidates, key)

\* A faulty get_postal_data_within_radius: the exact distance filter is left out
\* and the bounding box alone admits a row.
Faulty_within_radius_box_only(loc, radius_km, slice) ==
    LET bounds == BoundingBox_new(loc, radius_km)
        keep == [i \in 1..Len(slice) |->
                    /\ is_some(slice[i].geolocation)
                    /\ is_within_bounding_box(unwrap(slice[i].geolocation), bounds)]
    IN  dedup(slice, Filter(keep, 1))

\* The rows at the given positions of a slice, sorted by distance to loc
\* (insertion into a sorted sequence, equal distances in input order).
RECURSIVE InsertByDistance(_, _, _, _, _)
InsertByDistance(loc, slice, sorted, pos, j) ==
    IF j > Len(sorted) THEN Append(sorted, pos)
    ELSE IF distance(unwrap(slice[pos].geolocation), loc)
                < distance(unwrap(slice[sorted[j]].geolocation), loc)
         THEN SubSeq(sorted, 1, j - 1) \o << pos >> \o SubSeq(sorted, j, Len(sorted))
         ELSE InsertByDistance(loc, slice, sorted, pos, j + 1)

RECURSIVE SortByDistance(_, _, _, _)
SortByDistance(loc, slice, positions, i) ==
    IF i = 0 THEN << >>
    ELSE InsertByDistance(loc, slice, SortByDistance(loc, slice, positions, i - 1),
                          positions[i], 1)

\* A faulty get_postal_data_within_radius: the result is sorted, nearest first.
Faulty_within_radius_sorted_by_distance(loc, radius_km, slice) ==
    LET bounds == BoundingBox_new(loc, radius_km)
        keep == [i \in 1..Len(slice) |->
                    /\ is_some(slice[i].geolocation)
                    /\ is_within_bounding_box(unwrap(slice[i].geolocation), bounds)
                    /\ within(distance(unwrap(slice[i].geolocation), loc), radius_km)]
        positions == dedup(slice, Filter(keep, 1))
    IN  SortByDistance(loc, slice, positions, Len(positions))

\* utils::postal::get_postal_data_within_radius(location, radius, geonames_data).
get_postal_data_within_radius(loc, radius_km, slice) ==
    LET bounds == BoundingBox_new(loc, radius_km)
        keep == [i \in 1..Len(slice) |->
                    /\ is_some(slice[i].geolocation)
                    /\ is_within_bounding_box(unwrap(slice[i].geolocation), bounds)
                    /\ within(distance(unwrap(slice[i].geolocation), loc), radius_km)]
    IN  dedup(slice, Filter(keep, 1))

\* The crate root's get_postal_data_within_radius (lib.rs): no bounding box.
lib_get_postal_data_within_radius(loc, radius_km, slice) ==
    LET keep == [i \in 1..Len(slice) |->
                    /\ is_some(slice[i].geolocation)
                    /\ within(distance(unwrap(slice[i].geolocation), loc), radius_km)]
    IN  dedup(slice, Filter(keep, 1))

\* The keys (postal codes) of the rows at the given positions, in that order.
postal_codes(slice, positions) ==
    [j \in 1..Len(positions) |-> slice[positions[j]].postal_code]

\* Vec::dedup on a Vec<&str>: a key equal to the one kept just before it is removed.
dedup_keys(keys) ==
    LET kept == dedup(keys, [j \in 1..Len(keys) |-> j])
    IN  [j \in 1..Len(kept) |-> keys[kept[j]]]

\* utils::postal::get_postcodes_within_radius(location, radius, geonames_data):
\* box, exact distance, map to the postal code, collect; there is no dedup
\* (utils::places::get_places_within_radius is the same code with `name`).
get_postcodes_within_radius(loc, radius_km, slice) ==
    LET bounds == BoundingBox_new(loc, radius_km)
        keep == [i \in 1..Len(slice) |->
                    /\ is_some(slice[i].geolocation)
                    /\ is_within_bounding_box(unwrap(slice[i].geolocation), bounds)
                    /\ within(distance(unwrap(slice[i].geolocation), loc), radius_km)]
    IN  postal_codes(slice, Filter(keep, 1))

\* The crate root's get_postcodes_within_radius (lib.rs): no bounding box, and
\* postcodes.dedup() at the end.
lib_get_postcodes_within_radius(loc, radius_km, slice) ==
    LET keep == [i \in 1..Len(slice) |->
                    /\ is_some(slice[i].geolocation)
                    /\ within(distance(unwrap(slice[i].geolocation), loc), radius_km)]
    IN  dedup_keys(postal_codes(slice, Filter(keep, 1)))

\* The values of the download variables while the queries are checked.
CacheIdle ==
    /\ cache = << >>
    /\ pc = << >>
    /\ call = << >>
    /\ data = << >>
    /\ offset = << >>
    /\ io = << >>
    /\ ret = << >>
    /\ fetched = << >>
    /\ fresh = {}

\* A caller holds a loaded slice and has asked nothing yet.
QueryInit ==
    /\ geonames_data \in RecordSlices
    /\ op = "none"
    /\ location = GeoLocation(0, 0)
    /\ radius = 0
    /\ result = << >>
    /\ CacheIdle

GetNearestPostcode ==
    /\ op = "none"
    /\ \E l \in Points :
        /\ location' = l
        /\ result' = get_nearest_postcode(l, geonames_data)
    /\ op' = "get_nearest_postcode"
    /\ radius' = 0
    /\ UNCHANGED <<geonames_data, cvars>>

GetNearestPostcodeWithBounding ==
    /\ op = "none"
    /\ \E l \in Points, threshold \in Radii :
        /\ location' = l
        /\ radius' = threshold
        /\ result' = get_nearest_postcode_with_bounding(l, geonames_data, threshold)
    /\ op' = "get_nearest_postcode_with_bounding"
    /\ UNCHANGED <<geonames_data, cvars>>

GetPostalDataWithinRadius ==
    /\ op = "none"
    /\ \E l \in Points, r \in Radii :
        /\ location' = l
        /\ radius' = r
        /\ result' = get_postal_data_within_radius(l, r, geonames_data)
    /\ op' = "get_postal_data_within_radius"
    /\ UNCHANGED <<geonames_data, cvars>>

LibGetPostalDataWithinRadius ==
    /\ op = "none"
    /\ \E l \in Points, r \in Radii :
        /\ location' = l
        /\ radius' = r
        /\ result' = lib_get_postal_data_within_radius(l, r, geonames_data)
    /\ op' = "lib_get_postal_data_within_radius"
    /\ UNCHANGED <<geonames_data, cvars>>

GetPostcodesWithinRadius ==
    /\ op = "none"
    /\ \E l \in Points, r \in Radii :
        /\ location' = l
        /\ radius' = r
        /\ result' = get_postcodes_within_radius(l, r, geonames_data)
    /\ op' = "get_postcodes_within_radius"
    /\ UNCHANGED <<geonames_data, cvars>>

LibGetPostcodesWithinRadius ==
    /\ op = "none"
    /\ \E l \in Points, r \in Radii :
        /\ location' = l
        /\ radius' = r
        /\ result' = lib_get_postcodes_within_radius(l, r, geonames_data)
    /\ op' = "lib_get_postcodes_within_radius"
    /\ UNCHANGED <<geonames_data, cvars>>

\* The caller is done with the result; the slice is untouched.
QueryReturn ==
    /\ op # "none"
    /\ op' = "none"
    /\ location' = GeoLocation(0, 0)
    /\ radius' = 0
    /\ result' = << >>
    /\ UNCHANGED <<geonames_data, cvars>>

QueryNext ==
    \/ GetNearestPostcode
    \/ GetNearestPostcodeWithBounding
    \/ GetPostalDataWithinRadius
    \/ LibGetPostalDataWithinRadius
    \/ GetPostcodesWithinRadius
    \/ LibGetPostcodesWithinRadius
    \/ QueryReturn

QuerySpec == QueryInit /\ [][QueryNext]_vars

-----------------------------------------------------------------------------
(* The claims about the queries, checked under QuerySpec                   *)

\* The positions a query returned, and the rows at them.
ResultPositions == { result[j] : j \in 1..Len(result) }
ResultRows == { geonames_data[i] : i \in ResultPositions }

\* Row i has a coordinate whose exact distance to the query's location is at most
\* the query's radius.
Matches(i) ==
    /\ is_some(geonames_data[i].geolocation)
    /\ within(distance(unwrap(geonames_data[i].geolocation), location), radius)

\* Row i has a coordinate inside BoundingBox::new(location, radius).
InBox(i) ==
    /\ is_some(geonames_data[i].geolocation)
    /\ is_within_bounding_box(unwrap(geonames_data[i].geolocation),
                              BoundingBox_new(location, radius))

\* The exact distance of row i (which has a coordinate) to the query's location.
RowDistance(i) == distance(unwrap(geonames_data[i].geolocation), location)

\* C1: within_radius has no false negatives: every row with a coordinate whose
\* distance to the point is at most the radius is contained in the result of
\* get_postal_data_within_radius, so the bounding box never rejects a row the
\* exact distance test accepts.
C1_NoFalseNegatives ==
    op = "get_postal_data_within_radius" =>
        \A i \in 1..Len(geonames_data) : Matches(i) => geonames_data[i] \in ResultRows

\* C2: nearest returns a row with a coordinate whose exact distance to the point is
\* the minimum over all rows with a coordinate, and of several rows at that minimum
\* the first in input order.
C2_NearestIsExactMinimum ==
    op = "get_nearest_postcode" =>
        LET located == { i \in 1..Len(geonames_data) :
                            is_some(geonames_data[i].geolocation) }
        IN  IF located = {} THEN result = << >>
            ELSE /\ Len(result) = 1
                 /\ result[1] \in located
                 /\ \A j \in located : RowDistance(result[1]) <= RowDistance(j)
                 /\ \A j \in located :
                        RowDistance(j) = RowDistance(result[1]) => result[1] <= j

\* C3: every row within_radius returns has a coordinate whose distance to the point
\* is at most the radius (both get_postal_data_within_radius variants): the
\* bounding box alone never admits a row.
C3_ResultWithinRadius ==
    op \in {"get_postal_data_within_radius", "lib_get_postal_data_within_radius"} =>
        \A i \in ResultPositions : Matches(i)

\* C3 witness: the box variant returned a row, and left out a row that lies inside
\* the bounding box but farther away than the radius.
C3_Witness ==
    /\ op = "get_postal_data_within_radius"
    /\ result # << >>
    /\ \E i \in 1..Len(geonames_data) :
        InBox(i) /\ ~Matches(i) /\ geonames_data[i] \notin ResultRows

\* C4: within_radius returns all matching rows and drops no duplicate: every input
\* occurrence of a row with a coordinate within the radius appears in the result,
\* also when two matching rows share a key or are identical and adjacent.  Stated
\* for the crate root's get_postal_data_within_radius, which applies no bounding
\* box, so that only the trailing dedup decides it.
C4_EveryOccurrenceReturned ==
    op = "lib_get_postal_data_within_radius" =>
        \A i \in 1..Len(geonames_data) : Matches(i) => i \in ResultPositions

-----------------------------------------------------------------------------
(* src/src/geonames/mod.rs, gazetteer.rs, postal.rs and                    *)
(* src/src/load_geonames.rs: download, its on-disk cache, invalidate_cache *)

\* The processes that share the cache directory.
Procs == { 1, 2 }

\* The number of pieces in which std::fs::write puts a text on disk (write_all
\* loops over write calls after the file has been created and truncated).
TextLen == 2

\* The four "full" country variants named in get_postal_url / get_gazetteer_url.
FullVariants ==
    { "GreatBritainFull", "UnitedKingdomFull", "NetherlandsFull", "CanadaFull" }

\* geonames::postal::get_postal_url (and the one in load_geonames.rs).
get_postal_url(country) ==
    [panic |-> FALSE, base |-> "export/zip", name |-> country,
     ext |-> IF country \in FullVariants THEN ".csv.zip" ELSE ".zip"]

\* A faulty get_gazetteer_url: it builds a URL for every country.
Faulty_gazetteer_url_never_panics(country) ==
    [panic |-> FALSE, base |-> "export/dump", name |-> country, ext |-> ".zip"]

\* geonames::gazetteer::get_gazetteer_url: panics for the four full variants.
get_gazetteer_url(country) ==
    IF country \in FullVariants
    THEN [panic |-> TRUE, base |-> "export/dump", name |-> country, ext |-> ""]
    ELSE [panic |-> FALSE, base |-> "export/dump", name |-> country, ext |-> ".zip"]

\* The text of the archive entry "<country>.txt" behind a URL, in pieces.
RemoteText(url) == [i \in 1..TextLen |-> << url.base, url.name, i >>]

\* A text some earlier program left in the cache directory.
StaleText == [i \in 1..TextLen |-> << "stale", "GreatBritainFull", i >>]

\* A stretch of a file no write has filled yet (it reads as zero bytes).
Hole == << "", "", 0 >>

\* The URL of a call: `match data_type` in download, get_postal_url in download_postal.
UrlOf(c) ==
    IF c.fn = "download_postal" \/ c.data_type = "Postal"
    THEN get_postal_url(c.country)
    ELSE get_gazetteer_url(c.country)

\* A faulty cache path: both dataset kinds share one directory.
Faulty_CachePath_shared_by_kinds(c) ==
    IF c.fn = "download_postal" THEN << ".", c.country >>
    ELSE << "postal", c.country >>

\* cache_path: <cache_dir>/postal/<country>.txt or <cache_dir>/gazetteer/<country>.txt
\* in download, <cache_dir>/<country>.txt in download_postal.
CachePath(c) ==
    IF c.fn = "download_postal" THEN << ".", c.country >>
    ELSE IF c.data_type = "Postal" THEN << "postal", c.country >>
    ELSE << "gazetteer", c.country >>

\* What a caller asks download for, and download_postal.
DownloadInputs ==
    ({ "UnitedStates", "GreatBritainFull" } \X { "Postal", "Gazetteer" })
        \cup (FullVariants \X { "Gazetteer" })
PostalInputs == { "UnitedStates" }

\* The cache files those calls can touch, and one left by something else.
Paths ==
    { << "postal", "UnitedStates" >>, << "postal", "GreatBritainFull" >>,
      << "gazetteer", "UnitedStates" >>, << "gazetteer", "GreatBritainFull" >>,
      << ".", "UnitedStates" >> }

\* The download targets that can own a cache file.
Targets ==
    { << "download", "UnitedStates", "Postal" >>,
      << "download", "GreatBritainFull", "Postal" >>,
      << "download", "UnitedStates", "Gazetteer" >>,
      << "download_postal", "UnitedStates", "Postal" >> }

Absent == [exists |-> FALSE, data |-> << >>]
NoCall == [fn |-> "", country |-> "", data_type |-> "", disable_cache |-> FALSE,
           had |-> << >>, was_fresh |-> FALSE]
NoRet == [kind |-> "none", error |-> "", data |-> << >>]
Ok(text) == [kind |-> "ok", error |-> "", data |-> text]
Err(e) == [kind |-> "err", error |-> e, data |-> << >>]
Panic == [kind |-> "panic", error |-> "not supported for gazetteer", data |-> << >>]

\* The values of the query variables while download is checked.
QueryIdle ==
    /\ geonames_data = << >>
    /\ op = "none"
    /\ location = GeoLocation(0, 0)
    /\ radius = 0
    /\ result = << >>

\* Nothing has been downloaded: no process is inside a call.
ProcsIdle ==
    /\ pc = [p \in Procs |-> "idle"]
    /\ call = [p \in Procs |-> NoCall]
    /\ data = [p \in Procs |-> << >>]
    /\ offset = [p \in Procs |-> 0]
    /\ io = [p \in Procs |-> {}]
    /\ ret = [p \in Procs |-> NoRet]
    /\ fetched = [path \in Paths |-> << >>]
    /\ fresh = {}

\* download, lines 50-67 (download_postal, lines 24-31): the environment is read
\* and, in download, the URL is built, which panics for a full gazetteer.
StartCall(p, fn, country, data_type, disable_cache) ==
    LET c == [fn |-> fn, country |-> country, data_type |-> data_type,
              disable_cache |-> disable_cache,
              had |-> IF disable_cache THEN << >>
                      ELSE IF CachePath([fn |-> fn, country |-> country,
                                         data_type |-> data_type]) \in Paths
                           THEN fetched[CachePath([fn |-> fn, country |-> country,
                                                   data_type |-> data_type])]
                           ELSE << >>,
              was_fresh |-> ~disable_cache /\ << fn, country, data_type >> \in fresh]
    IN  /\ pc[p] = "idle"
        /\ call' = [call EXCEPT ![p] = c]
        /\ data' = [data EXCEPT ![p] = << >>]
        /\ offset' = [offset EXCEPT ![p] = 0]
        /\ io' = [io EXCEPT ![p] = {}]
        /\ IF UrlOf(c).panic
           THEN /\ pc' = [pc EXCEPT ![p] = "done"]
                /\ ret' = [ret EXCEPT ![p] = Panic]
                /\ fresh' = fresh
           ELSE /\ pc' = [pc EXCEPT ![p] = "check"]
                /\ ret' = [ret EXCEPT ![p] = NoRet]
                /\ fresh' = IF disable_cache THEN fresh
                            ELSE fresh \ { << fn, country, data_type >> }
        /\ UNCHANGED <<qvars, cache, fetched>>

\* download(country, data_type), with DISABLE_GEOCODER_CACHE set or not.
Download(p) ==
    \E input \in DownloadInputs, disable_cache \in BOOLEAN :
        StartCall(p, "download", input[1], input[2], disable_cache)

\* load_geonames::download_postal(country).
DownloadPostal(p) ==
    \E country \in PostalInputs, disable_cache \in BOOLEAN :
        StartCall(p, "download_postal", country, "Postal", disable_cache)

\* A faulty cache test: the cache file is never looked at.
Faulty_CheckCache_always_miss(p) ==
    /\ pc[p] = "check"
    /\ pc' = [pc EXCEPT ![p] = "transfer"]
    /\ UNCHANGED <<qvars, cache, call, data, offset, io, ret, fetched, fresh>>

\* A faulty cache test: DISABLE_GEOCODER_CACHE is not looked at.
Faulty_CheckCache_ignores_disable(p) ==
    /\ pc[p] = "check"
    /\ io' = [io EXCEPT ![p] = @ \cup { "exists" }]
    /\ pc' = [pc EXCEPT ![p] =
                IF cache[CachePath(call[p])].exists THEN "read" ELSE "transfer"]
    /\ UNCHANGED <<qvars, cache, call, data, offset, ret, fetched, fresh>>

\* `if !disable_cache && Path::new(&cache_path).exists()` (mod.rs line 69,
\* load_geonames.rs lines 33-35).
CheckCache(p) ==
    /\ pc[p] = "check"
    /\ IF call[p].disable_cache
       THEN /\ pc' = [pc EXCEPT ![p] = "transfer"]
            /\ io' = io
       ELSE /\ io' = [io EXCEPT ![p] = @ \cup { "exists" }]
            /\ pc' = [pc EXCEPT ![p] =
                        IF cache[CachePath(call[p])].exists THEN "read" ELSE "transfer"]
    /\ UNCHANGED <<qvars, cache, call, data, offset, ret, fetched, fresh>>

\* File::open(cache_path)?.read_to_string(&mut data)?; return Ok(data): the text
\* is whatever the file holds at that moment.
ReadCache(p) ==
    /\ pc[p] = "read"
    /\ pc' = [pc EXCEPT ![p] = "done"]
    /\ IF cache[CachePath(call[p])].exists
       THEN /\ io' = [io EXCEPT ![p] = @ \cup { "read" }]
            /\ data' = [data EXCEPT ![p] = cache[CachePath(call[p])].data]
            /\ ret' = [ret EXCEPT ![p] = Ok(cache[CachePath(call[p])].data)]
       ELSE /\ io' = [io EXCEPT ![p] = @ \cup { "read_failed" }]
            /\ data' = data
            /\ ret' = [ret EXCEPT ![p] = Err("cache_read")]
    /\ UNCHANGED <<qvars, cache, call, offset, fetched, fresh>>

\* The same two `?`: opening or reading the cache file fails, and the error is
\* returned.
ReadCacheFails(p) ==
    /\ pc[p] = "read"
    /\ pc' = [pc EXCEPT ![p] = "done"]
    /\ io' = [io EXCEPT ![p] = @ \cup { "read_failed" }]
    /\ ret' = [ret EXCEPT ![p] = Err("cache_read")]
    /\ UNCHANGED <<qvars, cache, call, data, offset, fetched, fresh>>

\* reqwest::blocking::get(url)?, ZipArchive::new, by_name("<country>.txt"),
\* read_to_string (mod.rs lines 76-84); with the cache disabled, Ok(data).
Transfer(p) ==
    /\ pc[p] = "transfer"
    /\ io' = [io EXCEPT ![p] = @ \cup { "transfer" }]
    /\ data' = [data EXCEPT ![p] = RemoteText(UrlOf(call[p]))]
    /\ IF call[p].disable_cache
       THEN /\ pc' = [pc EXCEPT ![p] = "done"]
            /\ ret' = [ret EXCEPT ![p] = Ok(RemoteText(UrlOf(call[p])))]
       ELSE /\ pc' = [pc EXCEPT ![p] = "create"]
            /\ ret' = ret
    /\ UNCHANGED <<qvars, cache, call, offset, fetched, fresh>>

\* One of those `?` fails: the transfer or the archive.
TransferFails(p) ==
    /\ pc[p] = "transfer"
    /\ pc' = [pc EXCEPT ![p] = "done"]
    /\ io' = [io EXCEPT ![p] = @ \cup { "transfer_failed" }]
    /\ ret' = [ret EXCEPT ![p] = Err("transfer")]
    /\ UNCHANGED <<qvars, cache, call, data, offset, fetched, fresh>>

\* create_dir_all(cache_dir)? and the first half of std::fs::write(cache_path,
\* &data)?: the file is created, or truncated when it exists.
CreateCacheFile(p) ==
    /\ pc[p] = "create"
    /\ pc' = [pc EXCEPT ![p] = "write"]
    /\ io' = [io EXCEPT ![p] = @ \cup { "write" }]
    /\ cache' = [cache EXCEPT ![CachePath(call[p])] = [exists |-> TRUE, data |-> << >>]]
    /\ offset' = [offset EXCEPT ![p] = 0]
    /\ UNCHANGED <<qvars, call, data, ret, fetched, fresh>>

\* create_dir_all or the creation of the file fails: the error is returned.
CreateCacheFileFails(p) ==
    /\ pc[p] = "create"
    /\ pc' = [pc EXCEPT ![p] = "done"]
    /\ io' = [io EXCEPT ![p] = @ \cup { "write_failed" }]
    /\ ret' = [ret EXCEPT ![p] = Err("cache_write")]
    /\ UNCHANGED <<qvars, cache, call, data, offset, fetched, fresh>>

\* The file after a piece is written at position i of it: positions a truncation
\* has cut away and nobody has written again are holes.
WriteAt(file, i, piece) ==
    [j \in 1..(IF Len(file) > i THEN Len(file) ELSE i) |->
        IF j = i THEN piece ELSE IF j <= Len(file) THEN file[j] ELSE Hole]

\* The second half of std::fs::write: the next piece of data goes to the file at
\* this writer's offset; after the last one download returns Ok(data).
WriteChunk(p) ==
    /\ pc[p] = "write"
    /\ offset' = [offset EXCEPT ![p] = @ + 1]
    /\ cache' = [cache EXCEPT ![CachePath(call[p])] =
                    [exists |-> TRUE,
                     data |-> WriteAt(@.data, offset[p] + 1, data[p][offset[p] + 1])]]
    /\ IF offset[p] + 1 = Len(data[p])
       THEN /\ pc' = [pc EXCEPT ![p] = "done"]
            /\ ret' = [ret EXCEPT ![p] = Ok(data[p])]
       ELSE /\ pc' = pc
            /\ ret' = ret
    /\ UNCHANGED <<qvars, call, data, io, fetched, fresh>>

\* A write fails part of the way: the error is returned, the file stays as it is.
WriteChunkFails(p) ==
    /\ pc[p] = "write"
    /\ pc' = [pc EXCEPT ![p] = "done"]
    /\ io' = [io EXCEPT ![p] = @ \cup { "write_failed" }]
    /\ ret' = [ret EXCEPT ![p] = Err("cache_write")]
    /\ UNCHANGED <<qvars, cache, call, data, offset, fetched, fresh>>

\* The caller takes the result.  History: the first text a caching download of
\* this cache file returned since the cache was last invalidated.
Return(p) ==
    /\ pc[p] = "done"
    /\ pc' = [pc EXCEPT ![p] = "idle"]
    /\ fetched' = IF /\ ret[p].kind = "ok"
                     /\ ~call[p].disable_cache
                     /\ fetched[CachePath(call[p])] = << >>
                  THEN [fetched EXCEPT ![CachePath(call[p])] = << ret[p].data >>]
                  ELSE fetched
    /\ call' = [call EXCEPT ![p] = NoCall]
    /\ data' = [data EXCEPT ![p] = << >>]
    /\ offset' = [offset EXCEPT ![p] = 0]
    /\ io' = [io EXCEPT ![p] = {}]
    /\ ret' = [ret EXCEPT ![p] = NoRet]
    /\ UNCHANGED <<qvars, cache, fresh>>

\* invalidate_cache(): remove_dir_all on <cache_dir>/postal and on
\* <cache_dir>/gazetteer, each when it exists; called between downloads.
InvalidateCache ==
    /\ \A p \in Procs : pc[p] = "idle"
    /\ cache' = [path \in Paths |->
                    IF path[1] \in { "postal", "gazetteer" } THEN Absent ELSE cache[path]]
    /\ fetched' = [path \in Paths |-> << >>]
    /\ fresh' = Targets
    /\ UNCHANGED <<qvars, pc, call, data, offset, io, ret>>

\* One of the two remove_dir_all(..).unwrap() panics: the directory it was
\* called on is left as it is, the one before it is gone.
InvalidateCachePanics ==
    /\ \A p \in Procs : pc[p] = "idle"
    /\ \E failing \in { "postal", "gazetteer" } :
        cache' = [path \in Paths |->
                    IF failing = "gazetteer" /\ path[1] = "postal" THEN Absent
                    ELSE cache[path]]
    /\ fetched' = [path \in Paths |-> << >>]
    /\ UNCHANGED <<qvars, pc, call, data, offset, io, ret, fresh>>

\* One caller, an empty cache directory but for a gazetteer file of a full
\* variant that something else may have left there.
CacheInit ==
    /\ QueryIdle
    /\ ProcsIdle
    /\ \E stale \in { Absent,
                      [exists |-> TRUE,
                       data |-> StaleText] } :
        cache = [path \in Paths |->
                    IF path = << "gazetteer", "GreatBritainFull" >> THEN stale ELSE Absent]

CacheNext ==
    \/ \E p \in { 1 } :
        \/ Download(p)
        \/ DownloadPostal(p)
        \/ CheckCache(p)
        \/ ReadCache(p)
        \/ ReadCacheFails(p)
        \/ Transfer(p)
        \/ TransferFails(p)
        \/ CreateCacheFile(p)
        \/ CreateCacheFileFails(p)
        \/ WriteChunk(p)
        \/ WriteChunkFails(p)
        \/ Return(p)
    \/ InvalidateCache
    \/ InvalidateCachePanics

\* The download pipeline used by one caller at a time, with I/O failures.
CacheSpec == CacheInit /\ [][CacheNext]_vars

\* Two processes, an empty cache, no I/O failure.
RaceInit ==
    /\ QueryIdle
    /\ ProcsIdle
    /\ cache = [path \in Paths |-> Absent]

\* download(&Country::UnitedStates, Data::Postal) with the cache enabled.
RaceDownload(p) == StartCall(p, "download", "UnitedStates", "Postal", FALSE)

RaceNext ==
    \E p \in Procs :
        \/ RaceDownload(p)
        \/ CheckCache(p)
        \/ ReadCache(p)
        \/ Transfer(p)
        \/ CreateCacheFile(p)
        \/ WriteChunk(p)
        \/ Return(p)

\* Two processes download the same country and kind at the same time; every
\* step of one may fall between two steps of the other.
RaceSpec == RaceInit /\ [][RaceNext]_vars

-----------------------------------------------------------------------------
(* Claims about download and its cache *)

\* The cache file and the remote text of the call process p is in.
PathOf(p) == CachePath(call[p])
TextOf(p) == RemoteText(UrlOf(call[p]))
Done(p) == pc[p] = "done"
Transferred(p) == "transfer" \in io[p] \/ "transfer_failed" \in io[p]

\* C5: after a download of (country, kind) has succeeded with caching enabled,
\* a later download of the same (country, kind) with caching enabled and no
\* invalidate_cache in between performs no transfer and no cache write, and
\* returns exactly the text the first one returned; the only other outcome is
\* the error of a cache read that failed.
C5_FetchOnceThenReuse ==
    \A p \in Procs :
        (Done(p) /\ call[p].had # << >>) =>
            /\ ~Transferred(p)
            /\ "write" \notin io[p]
            /\ \/ ret[p] = Ok(call[p].had[1]) /\ "read" \in io[p]
               \/ ret[p] = Err("cache_read") /\ "read_failed" \in io[p]

\* C5, its case: a second download has returned the first one's text, which is
\* the remote text, out of the cache.
C5_Witness ==
    \E p \in Procs :
        /\ Done(p)
        /\ call[p].had = << TextOf(p) >>
        /\ ret[p] = Ok(TextOf(p))
        /\ io[p] = { "exists", "read" }

\* C6: after invalidate_cache() has returned no cache entry exists for any
\* country of either dataset kind, and the next download of any (country, kind)
\* with caching enabled performs a transfer instead of reading a cached file.
C6_InvalidateEmptiesCache ==
    /\ fresh = Targets => \A path \in Paths : ~cache[path].exists
    /\ \A p \in Procs :
        (Done(p) /\ call[p].was_fresh) =>
            /\ Transferred(p)
            /\ "read" \notin io[p]
            /\ "read_failed" \notin io[p]

\* C7: when two processes download the same (country, kind) concurrently with
\* caching enabled and an empty cache, every download that returns successfully
\* returns the complete text, and once both have finished the cache file
\* holds the complete text.
C7_RaceHarmless ==
    /\ \A p \in Procs :
        (Done(p) /\ ret[p].kind = "ok") => ret[p].data = TextOf(p)
    /\ (\A p \in Procs : Done(p)) =>
        \A p \in Procs : cache[PathOf(p)] = [exists |-> TRUE, data |-> TextOf(p)]

\* C8: when the cache write-back fails after a successful transfer and
\* extraction, the caller still receives the fetched text.
C8_WriteFailureKeepsData ==
    \A p \in Procs :
        (Done(p) /\ "transfer" \in io[p] /\ "write_failed" \in io[p]) =>
            ret[p] = Ok(TextOf(p))

\* C9: when reading an existing cache file fails, download treats it as a cache
\* miss and goes on to the transfer instead of returning an error.
C9_ReadFailureIsMiss ==
    \A p \in Procs :
        (Done(p) /\ "read_failed" \in io[p]) =>
            /\ Transferred(p)
            /\ ret[p] # Err("cache_read")

\* C10: a download of the gazetteer for one of the four full variants fails
\* before any cache test, cache read, transfer or cache write, whatever the
\* cache holds; a download of the postal data for a full variant never fails
\* that way: it gets a URL, and without an I/O failure it returns a text,
\* the remote one when it transferred.
C10_FullGazetteerFailsBeforeIO ==
    /\ \A country \in FullVariants :
        get_gazetteer_url(country).panic /\ ~get_postal_url(country).panic
    /\ \A p \in Procs :
        (Done(p) /\ call[p].fn = "download" /\ call[p].country \in FullVariants) =>
            IF call[p].data_type = "Gazetteer"
            THEN ret[p] = Panic /\ io[p] = {} /\ data[p] = << >>
            ELSE /\ ret[p].kind # "panic"
                 /\ io[p] # {}
                 /\ io[p] \cap { "read_failed", "transfer_failed", "write_failed" } = {}
                        => ret[p].kind = "ok"
                 /\ "transfer" \in io[p] /\ ret[p].kind = "ok"
                        => ret[p].data = RemoteText(get_postal_url(call[p].country))

\* C10, its case: the gazetteer of a full variant was asked for while a cache
\* file for that very country and kind exists, and the call has failed without
\* looking at it.
C10_Witness ==
    \E p \in Procs :
        /\ Done(p)
        /\ call[p].data_type = "Gazetteer"
        /\ call[p].country \in FullVariants
        /\ cache[<< "gazetteer", "GreatBritainFull" >>].exists
        /\ call[p].country = "GreatBritainFull"
        /\ ret[p] = Panic

\* C11: with caching disabled by configuration a download never tests or reads
\* a cache file, it goes to the transfer even when a cache file for that country
\* and kind exists, and no step of it creates or modifies a cache file.
C11_DisabledCacheBypassed ==
    [][\A p \in Procs :
        (call'[p].disable_cache /\ pc'[p] # "idle") =>
            /\ cache' = cache
            /\ io'[p] \subseteq { "transfer", "transfer_failed" }
            /\ (pc'[p] = "done" /\ ret'[p] # Panic) =>
                    \/ ret'[p] = Ok(RemoteText(UrlOf(call'[p]))) /\ "transfer" \in io'[p]
                    \/ ret'[p] = Err("transfer") /\ "transfer_failed" \in io'[p]]_vars

\* C11, its case: a download with caching disabled has returned the transferred
\* text while a cache file for its country and kind exists.
C11_Witness ==
    \E p \in Procs :
        /\ Done(p)
        /\ call[p].disable_cache
        /\ PathOf(p) \in Paths
        /\ cache[PathOf(p)].exists
        /\ io[p] = { "transfer" }
        /\ ret[p] = Ok(TextOf(p))

-----------------------------------------------------------------------------
(* Further claims about the queries *)

\* What get_nearest_postcode returns for the location and slice of the query.
Nearest == get_nearest_postcode(location, geonames_data)

\* C12: nearest_bounded returns absent whenever every row with a coordinate lies
\* outside BoundingBox::new(point, threshold), also when nearest returns a row.
C12_BoundedAbsentOutsideBox ==
    (/\ op = "get_nearest_postcode_with_bounding"
     /\ \A i \in 1..Len(geonames_data) : ~InBox(i))
        => result = None

\* C12, its case: no row is inside the box, nearest returns a row, and
\* nearest_bounded has returned absent.
C12_Witness ==
    /\ op = "get_nearest_postcode_with_bounding"
    /\ \A i \in 1..Len(geonames_data) : ~InBox(i)
    /\ Nearest # None
    /\ result = None

\* C20: when nearest returns a row that lies inside BoundingBox::new(point,
\* threshold), nearest_bounded returns that same row.
C20_BoundedAgreesInsideBox ==
    (/\ op = "get_nearest_postcode_with_bounding"
     /\ Nearest # None
     /\ InBox(unwrap(Nearest)))
        => result = Nearest

\* C20, its case: nearest's row is inside the box while an earlier row of the
\* slice is outside of it, and nearest_bounded has returned nearest's row.
C20_Witness ==
    /\ op = "get_nearest_postcode_with_bounding"
    /\ Nearest # None
    /\ InBox(unwrap(Nearest))
    /\ \E i \in 1..Len(geonames_data) :
        /\ i < unwrap(Nearest)
        /\ is_some(geonames_data[i].geolocation)
        /\ ~InBox(i)
    /\ result = Nearest

\* The positions the query's within_radius variant returns at radius r.
WithinRadiusAt(r) ==
    IF op = "get_postal_data_within_radius"
    THEN get_postal_data_within_radius(location, r, geonames_data)
    ELSE lib_get_postal_data_within_radius(location, r, geonames_data)

Positions(seq) == { seq[j] : j \in 1..Len(seq) }

\* C13: within_radius is monotone in the radius: every row returned at the
\* query's radius is also returned at every larger radius, for the same point
\* and slice (both get_postal_data_within_radius variants).
C13_MonotoneInRadius ==
    op \in { "get_postal_data_within_radius", "lib_get_postal_data_within_radius" } =>
        \A r2 \in Radii :
            radius <= r2 => ResultPositions \subseteq Positions(WithinRadiusAt(r2))

\* C13, its case: the box variant has returned rows at a radius, and at a larger
\* radius it returns those and more.
C13_Witness ==
    /\ op = "get_postal_data_within_radius"
    /\ result # << >>
    /\ \E r2 \in Radii :
        /\ radius < r2
        /\ ResultPositions \subseteq Positions(WithinRadiusAt(r2))
        /\ ResultPositions # Positions(WithinRadiusAt(r2))

\* The postal codes, in input order, of the rows the filters of the key
\* projection admit: a coordinate within the radius and, for the utils variant,
\* inside the bounding box.
AdmittedKeys ==
    postal_codes(geonames_data,
                 Filter([i \in 1..Len(geonames_data) |->
                            Matches(i) /\ (op = "get_postcodes_within_radius" => InBox(i))],
                        1))

\* A sequence of keys without its immediately-adjacent repeats.
WithoutAdjacentRepeats(keys) ==
    LET first == Filter([j \in 1..Len(keys) |-> j = 1 \/ keys[j] # keys[j - 1]], 1)
    IN  [j \in 1..Len(first) |-> keys[first[j]]]

\* C14: the key projection of within_radius removes exactly the
\* immediately-adjacent repeats: the returned key list never has two equal keys
\* at adjacent positions, and equal keys separated by a different key are kept.
C14_AdjacentRepeatsRemoved ==
    op \in { "get_postcodes_within_radius", "lib_get_postcodes_within_radius" } =>
        /\ \A j \in 1..(Len(result) - 1) : result[j] # result[j + 1]
        /\ result = WithoutAdjacentRepeats(AdmittedKeys)

\* seq is a subsequence of whole from position i on (greedy matching).
RECURSIVE IsSubsequence(_, _, _)
IsSubsequence(seq, whole, i) ==
    IF seq = << >> THEN TRUE
    ELSE IF i > Len(whole) THEN FALSE
    ELSE IF seq[1] = whole[i] THEN IsSubsequence(Tail(seq), whole, i + 1)
    ELSE IsSubsequence(seq, whole, i + 1)

\* C16: the result of within_radius keeps input order: the returned rows are at
\* increasing positions of the slice, and the returned keys of the projection
\* are a subsequence of the slice's keys; the result is not sorted by distance.
C16_InputOrderKept ==
    /\ op \in { "get_postal_data_within_radius", "lib_get_postal_data_within_radius" } =>
        \A j \in 1..(Len(result) - 1) : result[j] < result[j + 1]
    /\ op \in { "get_postcodes_within_radius", "lib_get_postcodes_within_radius" } =>
        IsSubsequence(result,
                      postal_codes(geonames_data,
                                   [i \in 1..Len(geonames_data) |-> i]), 1)

\* C16, its case: two rows were returned in input order, the farther one first.
C16_Witness ==
    /\ op = "get_postal_data_within_radius"
    /\ Len(result) >= 2
    /\ result[1] < result[2]
    /\ RowDistance(result[1]) > RowDistance(result[2])

-----------------------------------------------------------------------------
(* src/src/geonames/postal.rs, gazetteer.rs and src/src/models/geonames.rs: *)
(* parsing.  A text is a sequence of tokens: field contents, tabs, newlines. *)

\* The most lines a parsed text has.
MaxLines == 2

TAB == "\t"
NL == "\n"

\* str::split(sep) over tokens: the segments between separators; a text without
\* a separator is one segment, an empty text one empty segment.
RECURSIVE SplitFrom(_, _, _, _)
SplitFrom(tokens, sep, segment, i) ==
    IF i > Len(tokens) THEN << segment >>
    ELSE IF tokens[i] = sep
         THEN << segment >> \o SplitFrom(tokens, sep, << >>, i + 1)
         ELSE SplitFrom(tokens, sep, Append(segment, tokens[i]), i + 1)

split(tokens, sep) == SplitFrom(tokens, sep, << >>, 1)

\* str::lines(): split at newlines; a final empty segment is not a line.
lines(text) ==
    LET segments == split(text, NL)
    IN  IF segments[Len(segments)] = << >>
        THEN SubSeq(segments, 1, Len(segments) - 1)
        ELSE segments

\* One field of a line as a &str: its only token, or "" when it has none.
field(segment) == IF segment = << >> THEN "" ELSE segment[1]

\* line.split('\t').collect::<Vec<&str>>()
split_fields(line) ==
    LET segments == split(line, TAB)
    IN  [j \in 1..Len(segments) |-> field(segments[j])]

\* fields.get(i).map(|s| s.to_string()), i counted from 0.
get(fields, i) == IF i < Len(fields) THEN Some(fields[i + 1]) ELSE None

\* str::parse for f64, i64 and chrono's NaiveDate::parse_from_str(.., "%Y-%m-%d"),
\* on the numerals and dates of the lines below; everything else is an Err.
\* Coordinates come out in millidegrees.
NumberTable ==
    ("51.8" :> 51800) @@ ("0.64" :> 640) @@ ("2643743" :> 2643743)
        @@ ("51.50853" :> 51508) @@ ("-0.12574" :> -125) @@ ("8961989" :> 8961989)
        @@ ("25" :> 25) @@ ("0" :> 0)
DateTable == ("2023-01-02" :> << 2023, 1, 2 >>)

parse_number(s) == IF s \in DOMAIN NumberTable THEN Ok(NumberTable[s]) ELSE Err("parse")
parse_date(s) == IF s \in DOMAIN DateTable THEN Ok(DateTable[s]) ELSE Err("parse")

\* A faulty Accuracy::from_str: an unrecognized code is an error.
Faulty_from_str_rejects_unknown(s) ==
    CASE s = "0" -> Ok("NoLocation")
      [] s = "1" -> Ok("Estimated")
      [] s = "3" -> Ok("SamePostalCodeOtherName")
      [] s = "4" -> Ok("GeonameId")
      [] s = "6" -> Ok("Centroid")
      [] OTHER -> Err("unknown accuracy")

\* impl FromStr for Accuracy: from_str(s).
from_str(s) ==
    CASE s = "0" -> Ok("NoLocation")
      [] s = "1" -> Ok("Estimated")
      [] s = "3" -> Ok("SamePostalCodeOtherName")
      [] s = "4" -> Ok("GeonameId")
      [] s = "6" -> Ok("Centroid")
      [] OTHER -> Ok("NoAccuracyData")

\* The outcomes of a parse that does not return: fields[i] beyond the end of the
\* vector, and unwrap() on an Err.
IndexPanic == [kind |-> "panic", error |-> "index out of bounds", data |-> << >>]
UnwrapPanic == [kind |-> "panic", error |-> "unwrap on Err", data |-> << >>]

\* The columns load_postal_data reads as fields[i], and its closure for one line.
PostalIndexed == { 0, 1, 9, 10, 11 }

postal_row(line) ==
    LET fields == split_fields(line)
    IN  IF \E i \in PostalIndexed : i >= Len(fields) THEN IndexPanic
        ELSE IF \/ parse_number(fields[10]).kind # "ok"
                \/ parse_number(fields[11]).kind # "ok"
                \/ from_str(fields[12]).kind # "ok"
             THEN UnwrapPanic
        ELSE Ok([country_code |-> fields[1],
                 postal_code |-> fields[2],
                 place_name |-> get(fields, 2),
                 admin_name1 |-> get(fields, 3),
                 admin_code1 |-> get(fields, 4),
                 admin_name2 |-> get(fields, 5),
                 admin_code2 |-> get(fields, 6),
                 admin_name3 |-> get(fields, 7),
                 admin_code3 |-> get(fields, 8),
                 geolocation |-> Some(GeoLocation(parse_number(fields[10]).data,
                                                  parse_number(fields[11]).data)),
                 accuracy |-> from_str(fields[12]).data])

\* fields[3].split(',') on the alternate names of the lines below.
AlternateNamesTable ==
    ("Londres,Londinium" :> << "Londres", "Londinium" >>) @@ ("" :> << "" >>)
split_commas(s) ==
    IF s \in DOMAIN AlternateNamesTable THEN AlternateNamesTable[s] ELSE << s >>

\* parse().unwrap_or_default() for population and elevation.
unwrap_or_default(parsed) == IF parsed.kind = "ok" THEN parsed.data ELSE 0

\* The columns load_gazetteer_data reads as fields[i], and its closure for one line.
GazetteerIndexed == (0..9) \cup (14..18)

gazetteer_row(line) ==
    LET fields == split_fields(line)
    IN  IF \E i \in GazetteerIndexed : i >= Len(fields) THEN IndexPanic
        ELSE IF \/ parse_number(fields[1]).kind # "ok"
                \/ parse_number(fields[5]).kind # "ok"
                \/ parse_number(fields[6]).kind # "ok"
                \/ parse_number(fields[17]).kind # "ok"
                \/ parse_date(fields[19]).kind # "ok"
             THEN UnwrapPanic
        ELSE Ok([id |-> parse_number(fields[1]).data,
                 name |-> fields[2],
                 asciiname |-> fields[3],
                 alternate_names |-> split_commas(fields[4]),
                 latitude |-> parse_number(fields[5]).data,
                 longitude |-> parse_number(fields[6]).data,
                 feature_class |-> fields[7],
                 feature_code |-> fields[8],
                 country_code |-> fields[9],
                 cc2 |-> fields[10],
                 admin1_code |-> get(fields, 10),
                 admin2_code |-> get(fields, 11),
                 admin3_code |-> get(fields, 12),
                 admin4_code |-> get(fields, 13),
                 population |-> unwrap_or_default(parse_number(fields[15])),
                 elevation |-> unwrap_or_default(parse_number(fields[16])),
                 dem |-> parse_number(fields[17]).data,
                 timezone |-> fields[18],
                 modification_date |-> parse_date(fields[19]).data])

\* data.lines().map(closure).collect(): the rows of all lines, or the panic of
\* the first line whose closure panics.
RECURSIVE CollectRows(_, _)
CollectRows(outcomes, i) ==
    IF i > Len(outcomes) THEN Ok(<< >>)
    ELSE IF outcomes[i].kind # "ok" THEN outcomes[i]
    ELSE LET rest == CollectRows(outcomes, i + 1)
         IN  IF rest.kind # "ok" THEN rest
             ELSE Ok(<< outcomes[i].data >> \o rest.data)

\* load_postal_data(data) and load_gazetteer_data(data).
load_postal_data(text) ==
    LET ls == lines(text)
    IN  CollectRows([j \in 1..Len(ls) |-> postal_row(ls[j])], 1)

load_gazetteer_data(text) ==
    LET ls == lines(text)
    IN  CollectRows([j \in 1..Len(ls) |-> gazetteer_row(ls[j])], 1)

\* The columns of a line joined by tabs.
RECURSIVE JoinColumns(_, _)
JoinColumns(columns, i) ==
    IF i > Len(columns) THEN << >>
    ELSE (IF columns[i] = "" THEN << >> ELSE << columns[i] >>)
            \o (IF i < Len(columns) THEN << TAB >> ELSE << >>)
            \o JoinColumns(columns, i + 1)

\* A postal line of the full layout (12 columns) with the given accuracy column,
\* and one whose optional columns are empty.
PostalColumns(accuracy) ==
    << "GB", "CM8", "Witham", "England", "ENG", "Essex", "E1", "Braintree", "B1",
       "51.8", "0.64", accuracy >>
PostalSparseColumns ==
    << "GB", "CM9", "", "", "", "", "", "", "", "51.8", "0.64", "4" >>

\* A gazetteer line of the full layout (19 columns).
GazetteerColumns ==
    << "2643743", "London", "London", "Londres,Londinium", "51.50853", "-0.12574",
       "P", "PPLC", "GB", "", "ENG", "GLA", "", "", "8961989", "", "25",
       "Europe/London", "2023-01-02" >>

\* The accuracy columns tried: the recognized codes, an empty column, a digit
\* that is no code, and a word.
AccuracyCodes == { "0", "1", "3", "4", "6", "", "2", "zz" }
RecognizedCodes == { "0", "1", "3", "4", "6" }

\* How many leading columns a ragged line keeps.
PostalCuts == { 0, 1, 2, 6, 9, 11 }
GazetteerCuts == { 10, 12, 14, 18 }

\* The lines a text is made of: full ones and ragged ones.
PostalLines ==
    { JoinColumns(PostalColumns(a), 1) : a \in AccuracyCodes }
        \cup { JoinColumns(PostalSparseColumns, 1) }
        \cup { JoinColumns(SubSeq(PostalColumns("6"), 1, n), 1) : n \in PostalCuts }
GazetteerLines ==
    { JoinColumns(GazetteerColumns, 1) }
        \cup { JoinColumns(SubSeq(GazetteerColumns, 1, n), 1) : n \in GazetteerCuts }

\* The lines of a sequence of lines, each ended by a newline.
RECURSIVE JoinLines(_, _)
JoinLines(ls, i) ==
    IF i > Len(ls) THEN << >> ELSE ls[i] \o << NL >> \o JoinLines(ls, i + 1)

\* Every text of at most MaxLines lines of one kind.
Texts ==
    { JoinLines(ls, 1) :
        ls \in UNION { [1..n -> PostalLines] \cup [1..n -> GazetteerLines] :
                        n \in 0..MaxLines } }

\* A caller holds a downloaded text (in data) and has parsed nothing yet.
ParseInit ==
    /\ QueryIdle
    /\ data \in Texts
    /\ pc = "idle"
    /\ call = ""
    /\ ret = NoRet
    /\ cache = << >>
    /\ offset = << >>
    /\ io = << >>
    /\ fetched = << >>
    /\ fresh = {}

LoadPostalData ==
    /\ pc = "idle"
    /\ pc' = "done"
    /\ call' = "load_postal_data"
    /\ ret' = load_postal_data(data)
    /\ UNCHANGED <<qvars, cache, data, offset, io, fetched, fresh>>

LoadGazetteerData ==
    /\ pc = "idle"
    /\ pc' = "done"
    /\ call' = "load_gazetteer_data"
    /\ ret' = load_gazetteer_data(data)
    /\ UNCHANGED <<qvars, cache, data, offset, io, fetched, fresh>>

\* The caller takes the rows (or has caught the panic); the text is untouched.
ParseReturn ==
    /\ pc = "done"
    /\ pc' = "idle"
    /\ call' = ""
    /\ ret' = NoRet
    /\ UNCHANGED <<qvars, cache, data, offset, io, fetched, fresh>>

ParseNext ==
    \/ LoadPostalData
    \/ LoadGazetteerData
    \/ ParseReturn

ParseSpec == ParseInit /\ [][ParseNext]_vars

-----------------------------------------------------------------------------
(* Claims about parsing, checked under ParseSpec *)

\* The lines of the text being parsed, each as its vector of columns.
ParsedColumns ==
    LET ls == lines(data) IN [j \in 1..Len(ls) |-> split_fields(ls[j])]

\* The parser that ran, its full layout, and the leading columns that are
\* mandatory in it (country code and postal code; id to cc2).
FullLayout == IF call = "load_postal_data" THEN 12 ELSE 19
Mandatory == IF call = "load_postal_data" THEN 2 ELSE 10

\* Every line of the text is a line of the parser's kind cut after at least its
\* mandatory leading columns, and some line is cut short.
RaggedText ==
    LET ls == lines(data)
    IN  /\ ls # << >>
        /\ \A j \in 1..Len(ls) :
            /\ ls[j] \in (IF call = "load_postal_data" THEN PostalLines
                          ELSE GazetteerLines)
            /\ Len(ParsedColumns[j]) >= Mandatory
        /\ \E j \in 1..Len(ls) : Len(ParsedColumns[j]) < FullLayout

\* C17: parsing a line that lacks trailing fields succeeds and yields absent for
\* them: neither load_postal_data nor load_gazetteer_data fails because a line
\* has fewer columns than the full layout.
C17_RaggedLineTolerated ==
    (pc = "done" /\ RaggedText) =>
        /\ ret.kind = "ok"
        /\ Len(ret.data) = Len(ParsedColumns)
        /\ \A j \in 1..Len(ret.data) :
            IF call = "load_postal_data"
            THEN /\ Len(ParsedColumns[j]) <= 2 => ret.data[j].place_name = None
                 /\ Len(ParsedColumns[j]) <= 8 => ret.data[j].admin_code3 = None
                 /\ Len(ParsedColumns[j]) <= 9 => ret.data[j].geolocation = None
            ELSE /\ Len(ParsedColumns[j]) <= 10 => ret.data[j].admin1_code = None
                 /\ Len(ParsedColumns[j]) <= 13 => ret.data[j].admin4_code = None

\* C18: parsing an accuracy code never fails: every string gives an Accuracy,
\* "0" gives NoLocation, "6" gives Centroid, every string that is not a
\* recognized code gives NoAccuracyData; so no accuracy column makes
\* load_postal_data fail on a line that is otherwise well-formed, and each row
\* carries the Accuracy of its column.
C18_AccuracyParseTotal ==
    /\ \A s \in AccuracyCodes \cup { "Witham", "51.8", TAB } :
        /\ from_str(s).kind = "ok"
        /\ s \notin RecognizedCodes => from_str(s) = Ok("NoAccuracyData")
    /\ from_str("0") = Ok("NoLocation")
    /\ from_str("6") = Ok("Centroid")
    /\ (/\ pc = "done"
        /\ call = "load_postal_data"
        /\ \A j \in 1..Len(ParsedColumns) :
            lines(data)[j] \in PostalLines /\ Len(ParsedColumns[j]) = 12) =>
            /\ ret.kind = "ok"
            /\ Len(ret.data) = Len(ParsedColumns)
            /\ \A j \in 1..Len(ret.data) :
                ret.data[j].accuracy =
                    (CASE ParsedColumns[j][12] = "0" -> "NoLocation"
                       [] ParsedColumns[j][12] = "1" -> "Estimated"
                       [] ParsedColumns[j][12] = "3" -> "SamePostalCodeOtherName"
                       [] ParsedColumns[j][12] = "4" -> "GeonameId"
                       [] ParsedColumns[j][12] = "6" -> "Centroid"
                       [] OTHER -> "NoAccuracyData")

\* C18, its case: a text whose lines have the accuracy columns "zz" and "6" was
\* parsed into a row with NoAccuracyData and a row with Centroid.
C18_Witness ==
    /\ pc = "done"
    /\ call = "load_postal_data"
    /\ Len(ParsedColumns) = 2
    /\ \A j \in 1..2 : lines(data)[j] \in PostalLines /\ Len(ParsedColumns[j]) = 12
    /\ ParsedColumns[1][12] = "zz"
    /\ ParsedColumns[2][12] = "6"
    /\ ret.kind = "ok"
    /\ ret.data[1].accuracy = "NoAccuracyData"
    /\ ret.data[2].accuracy = "Centroid"

-----------------------------------------------------------------------------
(* src/src/utils/postal.rs and src/src/utils/places.rs: the location of a key *)

\* Gazetteer, cut to the fields get_place_location reads.
Gazetteer(name, asciiname, alternate_names, geo) ==
    [name |-> name, asciiname |-> asciiname,
     alternate_names |-> alternate_names, geolocation |-> geo]

\* The places a slice is made of: one without a location, one whose name is an
\* alternate name of the first, one found by its ASCII name or an alternate
\* name only, and one that repeats its name among its alternate names.
PlacePool ==
    { Gazetteer("London", "London", << "Londres", "Londinium" >>, None),
      Gazetteer("Londres", "Londres", << >>, Some(GeoLocation(0, 177000))),
      Gazetteer("Witham Town", "Witham", << "Londinium" >>,
                Some(GeoLocation(100, 177000))),
      Gazetteer("London", "London", << "London", "Londres" >>,
                Some(GeoLocation(0, -178000))) }

PlaceSlices == UNION { [1..n -> PlacePool] : n \in 0..MaxRecords }

\* The keys asked for: postal codes and place names, and ones no row has.
Postcodes == { "CM8", "CM9", "CM0" }
Places == { "London", "Londres", "Londinium", "Witham", "Paris" }

\* Vec<String>::contains(&place.to_string()).
contains(vec, s) == \E j \in 1..Len(vec) : vec[j] = s

\* .filter(matches).filter_map(geolocation).next(): the location of the first
\* row that matches and has one (matches[i], one truth value per row).
first_location(slice, matches) ==
    LET located == Filter([i \in 1..Len(slice) |->
                              matches[i] /\ is_some(slice[i].geolocation)], 1)
    IN  IF located = << >> THEN None
        ELSE Some(unwrap(slice[located[1]].geolocation))

\* A faulty get_postcode_location: the first row with the postcode decides,
\* with or without a location.
Faulty_location_of_first_match(postcode, slice) ==
    LET matching == Filter([i \in 1..Len(slice) |-> slice[i].postal_code = postcode], 1)
    IN  IF matching = << >> THEN None ELSE slice[matching[1]].geolocation

\* get_postcode_location(postcode, geonames_data).
get_postcode_location(postcode, slice) ==
    first_location(slice, [i \in 1..Len(slice) |-> slice[i].postal_code = postcode])

\* get_place_location(place, geonames_data).
get_place_location(place, slice) ==
    first_location(slice,
                   [i \in 1..Len(slice) |->
                        \/ slice[i].name = place
                        \/ slice[i].asciiname = place
                        \/ contains(slice[i].alternate_names, place)])

\* A caller holds a loaded slice of PostalData or of Gazetteer rows; call is the
\* key it asks for.
LocateInit ==
    /\ geonames_data \in RecordSlices \cup PlaceSlices
    /\ op = "none"
    /\ location = GeoLocation(0, 0)
    /\ radius = 0
    /\ result = << >>
    /\ CacheIdle

\* The slice is a &[PostalData].
GetPostcodeLocation ==
    /\ op = "none"
    /\ \A i \in 1..Len(geonames_data) : geonames_data[i] \in RecordPool
    /\ \E postcode \in Postcodes :
        /\ call' = << postcode >>
        /\ result' = get_postcode_location(postcode, geonames_data)
    /\ op' = "get_postcode_location"
    /\ UNCHANGED <<geonames_data, location, radius,
                   cache, pc, data, offset, io, ret, fetched, fresh>>

\* The slice is a &[Gazetteer].
GetPlaceLocation ==
    /\ op = "none"
    /\ \A i \in 1..Len(geonames_data) : geonames_data[i] \in PlacePool
    /\ \E place \in Places :
        /\ call' = << place >>
        /\ result' = get_place_location(place, geonames_data)
    /\ op' = "get_place_location"
    /\ UNCHANGED <<geonames_data, location, radius,
                   cache, pc, data, offset, io, ret, fetched, fresh>>

\* The caller is done with the result; the slice is untouched.
LocateReturn ==
    /\ op # "none"
    /\ op' = "none"
    /\ call' = << >>
    /\ result' = << >>
    /\ UNCHANGED <<geonames_data, location, radius,
                   cache, pc, data, offset, io, ret, fetched, fresh>>

LocateNext ==
    \/ GetPostcodeLocation
    \/ GetPlaceLocation
    \/ LocateReturn

LocateSpec == LocateInit /\ [][LocateNext]_vars

\* Row i matches the key asked for.
KeyMatches(i) ==
    IF op = "get_postcode_location"
    THEN geonames_data[i].postal_code = call[1]
    ELSE \/ geonames_data[i].name = call[1]
         \/ geonames_data[i].asciiname = call[1]
         \/ call[1] \in { geonames_data[i].alternate_names[j] :
                            j \in 1..Len(geonames_data[i].alternate_names) }

\* The rows that match the key and have a coordinate.
LocatedMatches ==
    { i \in 1..Len(geonames_data) :
        KeyMatches(i) /\ is_some(geonames_data[i].geolocation) }

\* C15: locate_by_key returns the coordinate of the first row in input order
\* that matches the key (postal code equality; for places the name, the ASCII
\* name or an alternate name) and has a coordinate; earlier matching rows
\* without a coordinate are skipped, and the result is absent only when no
\* matching row has a coordinate.
C15_FirstLocatedMatch ==
    op \in { "get_postcode_location", "get_place_location" } =>
        IF LocatedMatches = {} THEN result = None
        ELSE \E i \in LocatedMatches :
                /\ \A k \in LocatedMatches : i <= k
                /\ result = Some(unwrap(geonames_data[i].geolocation))

\* C15, its case (postal codes): the first row with the postcode has no
\* coordinate, a later one has, and its coordinate was returned.
C15_Witness ==
    /\ op = "get_postcode_location"
    /\ result # None
    /\ \E i \in 1..Len(geonames_data) :
        /\ KeyMatches(i)
        /\ ~is_some(geonames_data[i].geolocation)
        /\ \A k \in LocatedMatches : i < k

-----------------------------------------------------------------------------
(* A further claim about the cache, checked under CacheSpec *)

\* The archive a dataset kind is fetched from: the first part of every piece
\* of its text.
PostalBase == get_postal_url("UnitedStates").base
GazetteerBase == get_gazetteer_url("UnitedStates").base
Bases(text) == { text[j][1] : j \in 1..Len(text) }

\* C19: a cache entry is specific to its dataset kind: for the same country
\* and cache directory, a Postal download never returns text that a Gazetteer
\* download wrote to the cache, and a Gazetteer download never returns text
\* that a Postal download cached.
C19_CacheEntryKindSpecific ==
    /\ PostalBase # GazetteerBase
    /\ \A p \in Procs :
        (Done(p) /\ ret[p].kind = "ok") =>
            IF call[p].data_type = "Postal"
            THEN GazetteerBase \notin Bases(ret[p].data)
            ELSE PostalBase \notin Bases(ret[p].data)
    /\ \A path \in Paths :
        /\ path[1] = "gazetteer" => PostalBase \notin Bases(cache[path].data)
        /\ path[1] # "gazetteer" => GazetteerBase \notin Bases(cache[path].data)

\* C19, its case: the gazetteer text of a country is in the cache, and a Postal
\* download of the same country has returned the postal text from its own
\* cache file.
C19_Witness ==
    \E p \in Procs :
        /\ Done(p)
        /\ call[p].fn = "download"
        /\ call[p].data_type = "Postal"
        /\ call[p].country = "UnitedStates"
        /\ cache[<< "gazetteer", "UnitedStates" >>].data
                = RemoteText(get_gazetteer_url("UnitedStates"))
        /\ io[p] = { "exists", "read" }
        /\ ret[p] = Ok(RemoteText(get_postal_url("UnitedStates")))

====
